---- MODULE Spec2Model ----
(***************************************************************************)
(* A model of download_molstar_issues.py: the start-up credential check,   *)
(* the cursor-paginated bulk fetch of issues and discussions through       *)
(* graphql_request, the rendering of one file per item, the index          *)
(* documents and the derivation of file names.                             *)
(***************************************************************************)
EXTENDS Integers, Sequences, FiniteSets, TLC

VARIABLES
    pc,           \* position of the script
    environ,      \* os.environ, restricted to the key GITHUB_TOKEN
    HEADERS,      \* the Authorization header, None while not set
    do_issues,    \* main: whether the issues are downloaded
    do_discussions, \* main: whether the discussions are downloaded
    issues,       \* the accumulator of get_all_issues, then main's `issues`
    discussions,  \* the accumulator of get_all_discussions, then main's `discussions`
    cursor,       \* the pagination cursor of the running fetch loop
    page,         \* the page counter of the running fetch loop
    svc,          \* what the remote service holds, per collection
    log,          \* every request issued and every file-system effect, in order
    exitCode,     \* the process exit status, None while running
    fn,           \* pure-function specifications: the function applied
    arg,          \* pure-function specifications: its input
    ret           \* pure-function specifications: its result

vars == <<pc, environ, HEADERS, do_issues, do_discussions, issues, discussions,
          cursor, page, svc, log, exitCode, fn, arg, ret>>

\* Python's None and a present value, as sequences of length 0 and 1.
None == <<>>

Some(v) == <<v>>

The(o) == o[1]

Min(a, b) == IF a < b THEN a ELSE b

Max(a, b) == IF a < b THEN b ELSE a

Take(s, n) == SubSeq(s, 1, Min(n, Len(s)))

RECURSIVE Flatten(_)
Flatten(ss) == IF ss = <<>> THEN <<>> ELSE Head(ss) \o Flatten(Tail(ss))

Reverse(s) == [i \in 1..Len(s) |-> s[Len(s) + 1 - i]]

Range(s) == {s[i] : i \in 1..Len(s)}

(***************************************************************************)
(* Program constants.                                                      *)
(***************************************************************************)
IssuesFirst == 50

DiscussionsFirst == 50

IssueCommentsFirst == 50

DiscussionCommentsFirst == 50

RepliesFirst == 20

\* The two GraphQL queries, by the arguments they pass to the service.
IssuesQuery ==
    [collection |-> "issues", first |-> IssuesFirst, orderBy |-> "CREATED_AT_ASC",
     commentsFirst |-> IssueCommentsFirst, repliesFirst |-> 0]

DiscussionsQuery ==
    [collection |-> "discussions", first |-> DiscussionsFirst, orderBy |-> None,
     commentsFirst |-> DiscussionCommentsFirst, repliesFirst |-> RepliesFirst]

(***************************************************************************)
(* Bounds of the model.                                                    *)
(***************************************************************************)
MaxPages == 3

(***************************************************************************)
(* The remote service.  A collection holds the items numbered 1..n, the    *)
(* number being the creation rank.  Every item whose number is 1 modulo    *)
(* the page size is a thread of `nc` comments, the first of which has `nr` *)
(* replies; the other items have no comment.  `defaultOrder` is the order  *)
(* the service uses when the request names none.                           *)
(***************************************************************************)
ItemCounts(q) ==
    {0, 1, q.first} \cup {q.first * k + 1 : k \in 1..(MaxPages - 1)}

\* <<comments, replies of the first comment>>: none, few, the most the query
\* asks for, and one more than that of either.
Threads(q) ==
    IF q.repliesFirst = 0
    THEN {<<0, 0>>, <<1, 0>>, <<q.commentsFirst, 0>>, <<q.commentsFirst + 1, 0>>}
    ELSE {<<0, 0>>, <<1, 1>>, <<q.commentsFirst, q.repliesFirst>>,
          <<q.commentsFirst + 1, q.repliesFirst>>,
          <<q.commentsFirst, q.repliesFirst + 1>>}

Collections(q) ==
    {[n |-> n, nc |-> t[1], nr |-> t[2], defaultOrder |-> o, first |-> q.first] :
        n \in ItemCounts(q), t \in Threads(q), o \in {"asc", "desc"}}

\* The comment tree the service holds for item `num` of collection s.
FullTree(s, num) ==
    IF num % s.first = 1
    THEN [i \in 1..s.nc |->
             [id |-> i,
              replies |-> IF i = 1 THEN [j \in 1..s.nr |-> j] ELSE <<>>]]
    ELSE <<>>

\* The item numbers of collection s in the order the request q asks for.
ServiceOrder(q, s) ==
    LET created == [i \in 1..s.n |-> i]
    IN  IF q.orderBy = "CREATED_AT_ASC" \/ s.defaultOrder = "asc"
        THEN created
        ELSE Reverse(created)

\* comments(first: c) { ... replies(first: r) }
ServiceNode(q, s, num) ==
    [number |-> num,
     comments |-> [i \in 1..Min(q.commentsFirst, Len(FullTree(s, num))) |->
                      [id |-> FullTree(s, num)[i].id,
                       replies |-> Take(FullTree(s, num)[i].replies, q.repliesFirst)]]]

\* <collection>(first: n, after: $cursor): the page after `after`.
ServicePage(q, s, after) ==
    LET order == ServiceOrder(q, s)
        start == IF after = None THEN 0 ELSE The(after)
        end   == Min(start + q.first, s.n)
    IN  [nodes    |-> [i \in 1..(end - start) |-> ServiceNode(q, s, order[start + i])],
         pageInfo |-> [hasNextPage |-> end < s.n,
                       endCursor   |-> IF end > start THEN Some(end) ELSE None]]

\* The HTTP responses a request may receive.
Responses(q, s, after) ==
    {[status_code |-> 200, errors |-> FALSE, data |-> Some(ServicePage(q, s, after))],
     [status_code |-> 200, errors |-> TRUE,  data |-> None],
     [status_code |-> 403, errors |-> FALSE, data |-> None],
     [status_code |-> 500, errors |-> FALSE, data |-> None]}

(***************************************************************************)
(* graphql_request: what the call does with the response it received.      *)
(***************************************************************************)
\* Faulty variant: a rate-limit response is handled like GraphQL errors.
graphql_request_RateLimitReturnsNone(response) ==
    IF response.status_code >= 400
    THEN IF response.status_code = 403
         THEN [outcome |-> "return", data |-> None]
         ELSE [outcome |-> "HTTPError", data |-> None]
    ELSE IF response.errors
    THEN [outcome |-> "return", data |-> None]
    ELSE [outcome |-> "return", data |-> response.data]

graphql_request(response) ==
    IF response.status_code = 403
    THEN [outcome |-> "SystemExit", data |-> None]
    ELSE IF response.status_code >= 400
    THEN [outcome |-> "HTTPError", data |-> None]
    ELSE IF response.errors
    THEN [outcome |-> "return", data |-> None]
    ELSE [outcome |-> "return", data |-> response.data]

(***************************************************************************)
(* The log of effects.                                                     *)
(***************************************************************************)
Numbers(nodes) == [i \in 1..Len(nodes) |-> nodes[i].number]

\* A request, with the cursor and page counter it was issued under and the
\* response it received.
RequestEv(kind, c, p, response) ==
    [ev |-> "request", kind |-> kind, cursor |-> c, page |-> p,
     status_code |-> response.status_code, errors |-> response.errors,
     nodes |-> IF response.data = None THEN <<>>
               ELSE Numbers(The(response.data).nodes),
     hasNextPage |-> IF response.data = None THEN FALSE
                     ELSE The(response.data).pageInfo.hasNextPage,
     endCursor |-> IF response.data = None THEN None
                   ELSE The(response.data).pageInfo.endCursor,
     num |-> 0]

FileEv(ev, kind, num) ==
    [ev |-> ev, kind |-> kind, cursor |-> None, page |-> 0,
     status_code |-> 0, errors |-> FALSE,
     nodes |-> <<>>, hasNextPage |-> FALSE, endCursor |-> None, num |-> num]

(***************************************************************************)
(* Start-up: the .env file and the credential check.                       *)
(***************************************************************************)
Unset == "Unset"

\* os.environ.setdefault(key, value)
setdefault(env, value) == IF env = Unset THEN value ELSE env

\* Faulty variant: the check is `is not None`, so an empty token passes.
Truthy_NotNone(token) == token # Unset

\* Python truthiness of os.environ.get("GITHUB_TOKEN")
Truthy(token) == token # Unset /\ token # ""

\* What the .env file may say of GITHUB_TOKEN (Unset: no file, or no such line).
DotEnvValues == {Unset, "", "ghp_token"}

LoadDotEnv ==
    /\ pc = "env"
    /\ \E value \in DotEnvValues :
          environ' = IF value = Unset THEN environ ELSE setdefault(environ, value)
    /\ pc' = "token"
    /\ UNCHANGED <<HEADERS, do_issues, do_discussions,
                   issues, discussions, cursor, page, svc, log, exitCode, fn, arg, ret>>

CheckToken ==
    /\ pc = "token"
    /\ IF Truthy(environ)
       THEN /\ HEADERS' = Some(environ)
            /\ pc' = "main"
            /\ exitCode' = exitCode
       ELSE /\ HEADERS' = HEADERS
            /\ pc' = "exit"
            /\ exitCode' = Some(1)
    /\ UNCHANGED <<environ, do_issues, do_discussions,
                   issues, discussions, cursor, page, svc, log, fn, arg, ret>>

(***************************************************************************)
(* main                                                                    *)
(***************************************************************************)
\* The command lines: --issues and --discussions, each given or not.
CommandLines == [issues : BOOLEAN, discussions : BOOLEAN]

\* Where main goes after the issues block.
AfterIssues(discs) == IF discs THEN "discussions_begin" ELSE "done"

\* Where main goes first.
FirstBlock(iss, discs) == IF iss THEN "issues_begin" ELSE AfterIssues(discs)

Main ==
    /\ pc = "main"
    /\ \E args \in CommandLines :
          /\ do_issues' = (args.issues \/ ~args.discussions)
          /\ do_discussions' = (args.discussions \/ ~args.issues)
    /\ pc' = FirstBlock(do_issues', do_discussions')
    /\ UNCHANGED <<environ, HEADERS, issues, discussions, cursor, page, svc,
                   log, exitCode, fn, arg, ret>>

(***************************************************************************)
(* The fetch loops.                                                        *)
(***************************************************************************)
\* Faulty variant: the cursor is never advanced.
NextCursor_Stale(pageInfo) == None

\* The cursor of the next request, from the page just received.
NextCursor(pageInfo) == pageInfo.endCursor

\* The loop goes on after a page exactly when the service reports a next page.
LoopContinues(pageInfo) == pageInfo.hasNextPage

\* issues.extend(issue_data["nodes"])
Extend(acc, nodes) == acc \o nodes

\* Faulty variant: no data ends the run, not only the loop.
OnNoData_Aborts(kind) == "exit"

\* What the loop does when graphql_request returned no data.
OnNoData(kind) == kind \o "_save"

\* One iteration of `while True` in get_all_issues / get_all_discussions.
FetchPage(kind, q, acc) ==
    /\ pc = kind \o "_fetch"
    /\ \E response \in Responses(q, svc[kind], cursor) :
          LET r == graphql_request(response)
              data == The(r.data)
          IN  /\ log' = Append(log, RequestEv(kind, cursor, page, response))
              /\ IF r.outcome = "SystemExit" \/ r.outcome = "HTTPError"
                 THEN /\ pc' = "exit"
                      /\ exitCode' = Some(1)
                      /\ UNCHANGED <<issues, discussions, cursor, page>>
                 ELSE IF r.data = None
                 THEN /\ pc' = OnNoData(kind)
                      /\ UNCHANGED <<issues, discussions, cursor, page, exitCode>>
                 ELSE /\ IF kind = "issues"
                         THEN /\ issues' = Extend(acc, data.nodes)
                              /\ discussions' = discussions
                         ELSE /\ discussions' = Extend(acc, data.nodes)
                              /\ issues' = issues
                      /\ IF ~LoopContinues(data.pageInfo)
                         THEN /\ pc' = kind \o "_save"
                              /\ UNCHANGED <<cursor, page>>
                         ELSE /\ cursor' = NextCursor(data.pageInfo)
                              /\ page' = page + 1
                              /\ pc' = pc
                      /\ exitCode' = exitCode
    /\ UNCHANGED <<environ, HEADERS, do_issues, do_discussions,
                   svc, fn, arg, ret>>

get_all_issues_begin ==
    /\ pc = "issues_begin"
    /\ issues' = <<>>
    /\ cursor' = None
    /\ page' = 1
    /\ \E s \in Collections(IssuesQuery) : svc' = [svc EXCEPT !.issues = s]
    /\ pc' = "issues_fetch"
    /\ UNCHANGED <<environ, HEADERS, do_issues, do_discussions,
                   discussions, log, exitCode, fn, arg, ret>>

get_all_issues_page == FetchPage("issues", IssuesQuery, issues)

get_all_discussions_begin ==
    /\ pc = "discussions_begin"
    /\ discussions' = <<>>
    /\ cursor' = None
    /\ page' = 1
    /\ \E s \in Collections(DiscussionsQuery) : svc' = [svc EXCEPT !.discussions = s]
    /\ pc' = "discussions_fetch"
    /\ UNCHANGED <<environ, HEADERS, do_issues, do_discussions,
                   issues, log, exitCode, fn, arg, ret>>

get_all_discussions_page == FetchPage("discussions", DiscussionsQuery, discussions)

(***************************************************************************)
(* save_items and the index, as effects on the file system.                *)
(***************************************************************************)
\* Faulty variant: the loop over the items stops one short.
SaveEffects_SkipsLast(kind, items) ==
    <<FileEv("makedirs", kind, 0)>> \o
    [i \in 1..(Len(items) - 1) |-> FileEv("write", kind, items[i].number)]

\* os.makedirs, then one open(filepath, 'w') per item, in list order.
SaveEffects(kind, items) ==
    <<FileEv("makedirs", kind, 0)>> \o
    [i \in 1..Len(items) |-> FileEv("write", kind, items[i].number)]

\* open(index_path, 'w')
IndexEffects(kind) == <<FileEv("index", kind, 0)>>

save_items(kind, items) ==
    /\ pc = kind \o "_save"
    /\ log' = log \o SaveEffects(kind, items)
    /\ pc' = kind \o "_index"
    /\ UNCHANGED <<environ, HEADERS, do_issues, do_discussions,
                   issues, discussions, cursor, page, svc, exitCode, fn, arg, ret>>

save_issues == save_items("issues", issues)

save_discussions == save_items("discussions", discussions)

create_issue_index_file ==
    /\ pc = "issues_index"
    /\ log' = log \o IndexEffects("issues")
    /\ pc' = AfterIssues(do_discussions)
    /\ UNCHANGED <<environ, HEADERS, do_issues, do_discussions,
                   issues, discussions, cursor, page, svc, exitCode, fn, arg, ret>>

create_discussion_index_file ==
    /\ pc = "discussions_index"
    /\ log' = log \o IndexEffects("discussions")
    /\ pc' = "done"
    /\ UNCHANGED <<environ, HEADERS, do_issues, do_discussions,
                   issues, discussions, cursor, page, svc, exitCode, fn, arg, ret>>

(***************************************************************************)
(* The run of the script.                                                  *)
(***************************************************************************)
NoCollection == [n |-> 0, nc |-> 0, nr |-> 0, defaultOrder |-> "asc", first |-> 1]

Init ==
    /\ pc = "env"
    /\ environ \in {Unset, "", "ghp_token"}
    /\ HEADERS = None
    /\ do_issues = FALSE
    /\ do_discussions = FALSE
    /\ issues = <<>>
    /\ discussions = <<>>
    /\ cursor = None
    /\ page = 0
    /\ svc = [issues |-> NoCollection, discussions |-> NoCollection]
    /\ log = <<>>
    /\ exitCode = None
    /\ fn = ""
    /\ arg = None
    /\ ret = <<>>

Next ==
    \/ LoadDotEnv
    \/ CheckToken
    \/ Main
    \/ get_all_issues_begin
    \/ get_all_issues_page
    \/ save_issues
    \/ create_issue_index_file
    \/ get_all_discussions_begin
    \/ get_all_discussions_page
    \/ save_discussions
    \/ create_discussion_index_file

Spec == Init /\ [][Next]_vars

(***************************************************************************)
(* Reading the log.                                                        *)
(***************************************************************************)
Kinds == {"issues", "discussions"}

Items(kind) == IF kind = "issues" THEN issues ELSE discussions

Wanted(kind) == IF kind = "issues" THEN do_issues ELSE do_discussions

IsRequest(e) == e.ev = "request"

IsFile(e) == e.ev \in {"makedirs", "write", "index"}

\* The request was answered with a page of the collection.
IsPage(e) == IsRequest(e) /\ e.status_code = 200 /\ ~e.errors

\* The request was answered with GraphQL-level errors.
IsGraphQLErrors(e) == IsRequest(e) /\ e.status_code = 200 /\ e.errors

\* The request was answered with the rate-limit status.
IsRateLimited(e) == IsRequest(e) /\ e.status_code = 403

Requests(kind) == SelectSeq(log, LAMBDA e : IsRequest(e) /\ e.kind = kind)

Files(kind) == SelectSeq(log, LAMBDA e : IsFile(e) /\ e.kind = kind)

Writes(kind) == SelectSeq(log, LAMBDA e : e.ev = "write" /\ e.kind = kind)

IndexWrites(kind) == SelectSeq(log, LAMBDA e : e.ev = "index" /\ e.kind = kind)

\* The nodes of the pages received for `kind`, page after page.
Received(kind) ==
    Flatten([i \in 1..Len(Requests(kind)) |-> Requests(kind)[i].nodes])

Ascending(ns) == \A i, j \in 1..Len(ns) : i < j => ns[i] < ns[j]

NoRepeat(ns) == \A i, j \in 1..Len(ns) : i # j => ns[i] # ns[j]

\* The fetch of `kind` is over and the script went on.
Fetched(kind) ==
    pc \in {kind \o "_save", kind \o "_index", "done"} \cup
           (IF kind = "issues"
            THEN {"discussions_begin", "discussions_fetch", "discussions_save",
                  "discussions_index"}
            ELSE {})
    /\ Wanted(kind)

\* The files of `kind`, index included, are written.
Indexed(kind) ==
    /\ Wanted(kind)
    /\ pc \in {"done"} \cup
              (IF kind = "issues"
               THEN {"discussions_begin", "discussions_fetch", "discussions_save",
                     "discussions_index"}
               ELSE {})

(***************************************************************************)
(* C1: for both collections the list returned by the fetch is the          *)
(* concatenation of the received pages in the order received, it is in     *)
(* ascending creation order (ascending item number) and holds no item      *)
(* number twice.                                                           *)
(***************************************************************************)
C1_ConcatenationCreationOrderNoRepeat ==
    \A kind \in Kinds :
        /\ Numbers(Items(kind)) = Received(kind)
        /\ Ascending(Numbers(Items(kind)))
        /\ NoRepeat(Numbers(Items(kind)))

(***************************************************************************)
(* C2: every fetched item carries the full comment tree the service holds  *)
(* for it: every comment and every reply, in creation order.               *)
(***************************************************************************)
C2_FullCommentTree ==
    \A kind \in Kinds :
        \A i \in 1..Len(Items(kind)) :
            Items(kind)[i].comments = FullTree(svc[kind], Items(kind)[i].number)

(***************************************************************************)
(* C3: a page request answered with HTTP 403 is the last effect of the     *)
(* run: the script has exited with status 1, nothing follows the request   *)
(* in the log, no file of that collection is written, and no file at all   *)
(* when the request belonged to the issue listing.                         *)
(***************************************************************************)
C3_RateLimitAborts ==
    \A i \in 1..Len(log) :
        IsRateLimited(log[i]) =>
            /\ i = Len(log)
            /\ pc = "exit"
            /\ exitCode = Some(1)
            /\ Files(log[i].kind) = <<>>
            /\ (log[i].kind = "issues" =>
                    \A j \in 1..Len(log) : ~IsFile(log[j]))

C3_Witness ==
    /\ pc = "exit"
    /\ \E i \in 1..Len(log) :
          /\ IsRateLimited(log[i])
          /\ log[i].kind = "issues"
          /\ log[i].page = 3

(***************************************************************************)
(* C4: a page response with GraphQL errors adds no item and ends only the  *)
(* fetch loop of its collection: it is the last request of the collection, *)
(* the list holds the items of the earlier pages, the script goes on to    *)
(* write one file per accumulated item and the index, and the discussions  *)
(* are still requested after an issue listing that ended so.               *)
(***************************************************************************)
C4_GraphQLErrorsEndOnlyTheLoop ==
    \A kind \in Kinds :
        LET R == Requests(kind)
        IN  \A i \in 1..Len(R) :
                IsGraphQLErrors(R[i]) =>
                    /\ i = Len(R)
                    /\ R[i].nodes = <<>>
                    /\ Numbers(Items(kind)) =
                           Flatten([j \in 1..(i - 1) |-> R[j].nodes])
                    /\ pc # kind \o "_fetch"
                    /\ (log[Len(log)] = R[i] =>
                            pc = kind \o "_save" /\ exitCode = None)
                    /\ (Indexed(kind) =>
                            /\ [j \in 1..Len(Writes(kind)) |-> Writes(kind)[j].num]
                                   = Numbers(Items(kind))
                            /\ Len(IndexWrites(kind)) = 1)
                    /\ (kind = "issues" /\ do_discussions /\ pc \in {"done", "exit"} =>
                            Requests("discussions") # <<>>)

C4_Witness ==
    /\ pc = "done"
    /\ Len(Requests("issues")) = 3
    /\ IsGraphQLErrors(Requests("issues")[3])
    /\ Len(Writes("issues")) = 2 * IssuesFirst
    /\ Requests("discussions") # <<>>

(***************************************************************************)
(* C8: without a credential in the environment or the .env file the script *)
(* exits with status 1 right after the check: no request was issued and    *)
(* no file or directory was created.                                       *)
(***************************************************************************)
C8_NoCredentialNoEffect ==
    /\ (pc \notin {"env", "token"} /\ (environ = Unset \/ environ = "") =>
            pc = "exit" /\ exitCode = Some(1) /\ log = <<>>)
    /\ (log # <<>> => HEADERS = Some(environ) /\ environ = "ghp_token")

C8_Witness ==
    /\ pc = "exit"
    /\ environ = ""
    /\ log = <<>>

(***************************************************************************)
(* C9: for each collection, every file effect comes after the last page    *)
(* request of the collection; the item files are written one per fetched   *)
(* item, in fetched order; the index is written once, after the last item  *)
(* file; and no request is issued between the first file effect and the    *)
(* index write of the collection.                                          *)
(***************************************************************************)
FirstIndex(P(_)) ==
    IF \E i \in 1..Len(log) : P(log[i])
    THEN CHOOSE i \in 1..Len(log) : P(log[i]) /\ \A j \in 1..(i - 1) : ~P(log[j])
    ELSE 0

LastIndex(P(_)) ==
    IF \E i \in 1..Len(log) : P(log[i])
    THEN CHOOSE i \in 1..Len(log) : P(log[i]) /\ \A j \in (i + 1)..Len(log) : ~P(log[j])
    ELSE 0

C9_FetchThenFilesThenIndex ==
    \A kind \in Kinds :
        LET firstFile == FirstIndex(LAMBDA e : IsFile(e) /\ e.kind = kind)
            lastFile  == LastIndex(LAMBDA e : IsFile(e) /\ e.kind = kind)
            lastReq   == LastIndex(LAMBDA e : IsRequest(e) /\ e.kind = kind)
            W         == Writes(kind)
            F         == Files(kind)
        IN  /\ firstFile # 0 =>
                /\ lastReq < firstFile
                /\ \A i \in firstFile..lastFile : IsFile(log[i]) /\ log[i].kind = kind
                /\ F[1].ev = "makedirs"
                /\ \A i \in 2..Len(F) :
                       IF i <= Len(W) + 1 THEN F[i].ev = "write" ELSE F[i].ev = "index"
                /\ [j \in 1..Len(W) |-> W[j].num] = Numbers(Items(kind))
                /\ Len(IndexWrites(kind)) <= 1
            /\ pc \in {kind \o "_begin", kind \o "_fetch", kind \o "_save"} => F = <<>>
            /\ pc = kind \o "_index" => F # <<>> /\ IndexWrites(kind) = <<>>
            /\ Indexed(kind) => Len(IndexWrites(kind)) = 1

C9_Witness ==
    /\ pc = "done"
    /\ Len(Requests("issues")) = 3
    /\ Len(Writes("issues")) = 2 * IssuesFirst + 1
    /\ Len(Writes("discussions")) = DiscussionsFirst + 1
    /\ Len(IndexWrites("discussions")) = 1

(***************************************************************************)
(* C10: the requests of a collection follow the cursor protocol: the first *)
(* carries the null cursor, each later one the endCursor of the page       *)
(* before it, a request follows a page only when that page reported a next *)
(* page, no cursor is requested twice, and a fetch that ends on a page     *)
(* without next page has accumulated every page, which is all the service  *)
(* holds.                                                                  *)
(***************************************************************************)
PagesOf(s) == IF s.n = 0 THEN 1 ELSE (s.n + s.first - 1) \div s.first

C10_CursorProtocol ==
    \A kind \in Kinds :
        LET R == Requests(kind)
        IN  /\ R # <<>> => R[1].cursor = None /\ R[1].page = 1
            /\ \A i \in 1..(Len(R) - 1) :
                   /\ IsPage(R[i])
                   /\ R[i].hasNextPage
                   /\ R[i + 1].cursor = R[i].endCursor
                   /\ R[i + 1].page = R[i].page + 1
            /\ \A i, j \in 1..Len(R) : i # j => R[i].cursor # R[j].cursor
            /\ Len(R) <= PagesOf(svc[kind])
            /\ (pc = kind \o "_fetch" /\ R # <<>> =>
                   /\ IsPage(R[Len(R)])
                   /\ R[Len(R)].hasNextPage
                   /\ cursor = R[Len(R)].endCursor)
            /\ (Fetched(kind) /\ IsPage(R[Len(R)]) =>
                   /\ ~R[Len(R)].hasNextPage
                   /\ Numbers(Items(kind)) = Received(kind)
                   /\ Len(R) = PagesOf(svc[kind])
                   /\ Len(Items(kind)) = svc[kind].n)

C10_Witness ==
    /\ pc = "discussions_save"
    /\ Len(Requests("discussions")) = 3
    /\ IsPage(Requests("discussions")[3])
    /\ Len(discussions) = 2 * DiscussionsFirst + 1

(***************************************************************************)
(* The renderer: format_issue and format_discussion.  A document is the    *)
(* list `lines` the function joins with newlines.                          *)
(***************************************************************************)
MaxComments == 3

MaxReplies == 2

\* Python's `x or default` on an optional string.
OrElse(x, default) == IF x = None \/ The(x) = "" THEN default ELSE The(x)

\* ', '.join(names)
RECURSIVE JoinComma(_)
JoinComma(names) ==
    IF names = <<>> THEN ""
    ELSE IF Len(names) = 1 THEN names[1]
    ELSE names[1] \o ", " \o JoinComma(Tail(names))

\* {x['author']['login'] if x['author'] else 'ghost'}
Login(x) == IF x.author = None THEN "ghost" ELSE The(x.author)

\* sum(len(c.get('replies', {}).get('nodes', [])) for c in comments)
RECURSIVE SumReplies(_)
SumReplies(comments) ==
    IF comments = <<>> THEN 0
    ELSE Len(Head(comments).replies) + SumReplies(Tail(comments))

\* Faulty variant: the replies are left out of the count.
total_comments_TopLevelOnly(comments) == Len(comments)

total_comments(comments) == Len(comments) + SumReplies(comments)

\* The block of one top-level comment, numbered n.
CommentBlock(comment, n) ==
    <<"",
      "### Comment " \o ToString(n),
      "**Author**: " \o Login(comment),
      "**Date**: " \o comment.createdAt,
      "",
      OrElse(comment.body, "*Empty comment*")>>

\* The block of one reply, numbered n.
ReplyBlock(reply, n) ==
    <<"",
      "### Comment " \o ToString(n) \o " (reply)",
      "**Author**: " \o Login(reply),
      "**Date**: " \o reply.createdAt,
      "",
      OrElse(reply.body, "*Empty reply*")>>

\* for reply in replies: comment_num += 1; ...
RECURSIVE RenderReplies(_, _)
RenderReplies(replies, comment_num) ==
    IF replies = <<>> THEN <<>>
    ELSE ReplyBlock(Head(replies), comment_num + 1)
         \o RenderReplies(Tail(replies), comment_num + 1)

\* for comment in comments: comment_num += 1; ... (format_discussion)
RECURSIVE RenderThread(_, _)
RenderThread(comments, comment_num) ==
    IF comments = <<>> THEN <<>>
    ELSE CommentBlock(Head(comments), comment_num + 1)
         \o RenderReplies(Head(comments).replies, comment_num + 1)
         \o RenderThread(Tail(comments),
                         comment_num + 1 + Len(Head(comments).replies))

\* for i, comment in enumerate(comments, 1): ... (format_issue)
RenderEnumerated(comments) ==
    Flatten([i \in 1..Len(comments) |-> CommentBlock(comments[i], i)])

Optional(cond, line) == IF cond THEN <<line>> ELSE <<>>

Lower(state) == IF state = "OPEN" THEN "open" ELSE "closed"

format_issue(issue) ==
    <<"# Issue #" \o ToString(issue.number) \o ": " \o issue.title,
      "",
      "## Metadata",
      "- **State**: " \o Lower(issue.state),
      "- **Author**: " \o Login(issue),
      "- **Created**: " \o issue.createdAt,
      "- **Updated**: " \o issue.updatedAt>>
    \o Optional(issue.closedAt # None, "- **Closed**: " \o OrElse(issue.closedAt, ""))
    \o <<"- **URL**: " \o issue.url>>
    \o Optional(issue.labels # <<>>, "- **Labels**: " \o JoinComma(issue.labels))
    \o Optional(issue.assignees # <<>>,
                "- **Assignees**: " \o JoinComma(issue.assignees))
    \o Optional(issue.milestone # None,
                "- **Milestone**: " \o OrElse(issue.milestone, ""))
    \o <<"", "## Description", "", OrElse(issue.body, "*No description provided*")>>
    \o (IF issue.comments # <<>>
        THEN <<"", "---", "",
               "## Comments (" \o ToString(Len(issue.comments)) \o ")">>
             \o RenderEnumerated(issue.comments)
        ELSE <<>>)

format_discussion(disc) ==
    <<"# Discussion #" \o ToString(disc.number) \o ": " \o disc.title,
      "",
      "## Metadata",
      "- **State**: " \o (IF disc.closed THEN "closed" ELSE "open"),
      "- **Author**: " \o Login(disc),
      "- **Category**: " \o disc.category,
      "- **Created**: " \o disc.createdAt,
      "- **Updated**: " \o disc.updatedAt>>
    \o Optional(disc.closedAt # None, "- **Closed**: " \o OrElse(disc.closedAt, ""))
    \o <<"- **URL**: " \o disc.url>>
    \o Optional(disc.labels # <<>>, "- **Labels**: " \o JoinComma(disc.labels))
    \o <<"", "## Description", "", OrElse(disc.body, "*No description provided*")>>
    \o (IF disc.comments # <<>>
        THEN <<"", "---", "",
               "## Comments (" \o ToString(total_comments(disc.comments)) \o ")">>
             \o RenderThread(disc.comments, 0)
        ELSE <<>>)

(***************************************************************************)
(* The items the renderer is applied to: every thread of at most           *)
(* MaxComments comments with at most MaxReplies replies each (no reply on  *)
(* an issue, whose query asks for none), open or closed, with every        *)
(* optional field present or every optional field absent.                  *)
(***************************************************************************)
SeqsUpTo(S, n) == UNION {[1..k -> S] : k \in 0..n}

Entry(i, j, bare, nreplies) ==
    [author    |-> IF bare THEN None ELSE Some("alice"),
     body      |-> IF bare THEN None
                   ELSE Some("text " \o ToString(i) \o "." \o ToString(j)),
     createdAt |-> "2024-01-0" \o ToString(i) \o "T0" \o ToString(j) \o ":00:00Z",
     replies   |-> [k \in 1..nreplies |->
                       [author    |-> IF bare THEN None ELSE Some("bob"),
                        body      |-> IF bare THEN None
                                      ELSE Some("text " \o ToString(i) \o "." \o ToString(k)),
                        createdAt |-> "2024-01-0" \o ToString(i) \o "T0"
                                      \o ToString(k) \o ":00:00Z",
                        replies   |-> <<>>]]]

Thread(shape, bare) == [i \in 1..Len(shape) |-> Entry(i, 0, bare, shape[i])]

RenderItem(type, shape, closed, bare) ==
    [type      |-> type,
     number    |-> 42,
     title     |-> "Fix crash on load!!",
     state     |-> IF closed THEN "CLOSED" ELSE "OPEN",
     closed    |-> closed,
     author    |-> IF bare THEN None ELSE Some("carol"),
     createdAt |-> "2023-12-01T00:00:00Z",
     updatedAt |-> "2023-12-02T00:00:00Z",
     closedAt  |-> IF closed THEN Some("2023-12-03T00:00:00Z") ELSE None,
     url       |-> "https://github.com/molstar/molstar/x/42",
     labels    |-> IF bare THEN <<>> ELSE <<"bug", "ui">>,
     assignees |-> IF bare \/ type = "discussion" THEN <<>> ELSE <<"dave">>,
     milestone |-> IF bare \/ type = "discussion" THEN None ELSE Some("v4"),
     category  |-> IF type = "discussion" THEN "General" ELSE "",
     body      |-> IF bare THEN None ELSE Some("It crashes."),
     comments  |-> Thread(shape, bare)]

RenderInputs ==
    {RenderItem("issue", shape, closed, bare) :
        shape \in SeqsUpTo({0}, MaxComments), closed \in BOOLEAN, bare \in BOOLEAN}
    \cup
    {RenderItem("discussion", shape, closed, bare) :
        shape \in SeqsUpTo(0..MaxReplies, MaxComments), closed \in BOOLEAN,
        bare \in BOOLEAN}

\* The variables of the run, idle while a function is studied alone.
RunIdle ==
    /\ pc = "idle"
    /\ environ = Unset
    /\ HEADERS = None
    /\ do_issues = FALSE
    /\ do_discussions = FALSE
    /\ issues = <<>>
    /\ discussions = <<>>
    /\ cursor = None
    /\ page = 0
    /\ svc = [issues |-> NoCollection, discussions |-> NoCollection]
    /\ log = <<>>
    /\ exitCode = None

RunUnchanged ==
    UNCHANGED <<pc, environ, HEADERS, do_issues, do_discussions, issues,
                discussions, cursor, page, svc, log, exitCode>>

InitRender ==
    /\ RunIdle
    /\ fn = ""
    /\ arg \in RenderInputs
    /\ ret = <<>>

format_issue_call ==
    /\ fn = ""
    /\ arg.type = "issue"
    /\ fn' = "format_issue"
    /\ ret' = format_issue(arg)
    /\ arg' = arg
    /\ RunUnchanged

format_discussion_call ==
    /\ fn = ""
    /\ arg.type = "discussion"
    /\ fn' = "format_discussion"
    /\ ret' = format_discussion(arg)
    /\ arg' = arg
    /\ RunUnchanged

NextRender == format_issue_call \/ format_discussion_call

SpecRender == InitRender /\ [][NextRender]_vars

(***************************************************************************)
(* C5: in a rendered document the k-th entry of the depth-first flattening *)
(* of the comments and their replies is headed 'Comment k', with the       *)
(* '(reply)' label exactly on replies and followed by the entry's own      *)
(* author, date and body; the numbers run 1, 2, ... without gap or repeat; *)
(* the '## Comments (N)' header carries the last number used; and the      *)
(* Comments section is there exactly when the item has a comment.          *)
(***************************************************************************)
\* Each comment followed by its replies, replies marked.
FlatEntries(comments) ==
    Flatten([i \in 1..Len(comments) |->
                <<[reply |-> FALSE, e |-> comments[i]]>> \o
                [j \in 1..Len(comments[i].replies) |->
                    [reply |-> TRUE, e |-> comments[i].replies[j]]]])

MostEntries == (MaxComments + 1) * (MaxReplies + 2)

HeadingLines ==
    {"### Comment " \o ToString(k) : k \in 0..MostEntries} \cup
    {"### Comment " \o ToString(k) \o " (reply)" : k \in 0..MostEntries}

HeaderLines == {"## Comments (" \o ToString(k) \o ")" : k \in 0..MostEntries}

Positions(doc, S) == {i \in 1..Len(doc) : doc[i] \in S}

\* The k-th smallest element of a set of positions.
Kth(P, k) == CHOOSE i \in P : Cardinality({j \in P : j <= i}) = k

C5_SequentialCommentNumbers ==
    fn \in {"format_issue", "format_discussion"} =>
        LET flat     == FlatEntries(arg.comments)
            headings == Positions(ret, HeadingLines)
            headers  == Positions(ret, HeaderLines)
        IN  /\ Cardinality(headings) = Len(flat)
            /\ \A k \in 1..Len(flat) :
                   LET h == Kth(headings, k)
                   IN  /\ ret[h] = "### Comment " \o ToString(k)
                                   \o (IF flat[k].reply THEN " (reply)" ELSE "")
                       /\ ret[h + 1] = "**Author**: " \o Login(flat[k].e)
                       /\ ret[h + 2] = "**Date**: " \o flat[k].e.createdAt
                       /\ ret[h + 4] = OrElse(flat[k].e.body,
                                              IF flat[k].reply THEN "*Empty reply*"
                                              ELSE "*Empty comment*")
            /\ IF arg.comments = <<>>
               THEN headers = {} /\ Positions(ret, {"---"}) = {}
               ELSE /\ Cardinality(headers) = 1
                    /\ \A i \in headers :
                           /\ ret[i] = "## Comments (" \o ToString(Len(flat)) \o ")"
                           /\ \A h \in headings : i < h
                           /\ ret[i - 2] = "---"

C5_Witness ==
    /\ fn = "format_discussion"
    /\ Len(arg.comments) = 2
    /\ Len(arg.comments[1].replies) = 1
    /\ Len(arg.comments[2].replies) = 0
    /\ Positions(ret, {"## Comments (3)"}) # {}
    /\ Positions(ret, {"### Comment 2 (reply)"}) # {}

(***************************************************************************)
(* The index documents: create_issue_index and create_discussion_index.    *)
(* A document is the list of the lines written to _index.txt.              *)
(***************************************************************************)
MaxIndexItems == 3

REPO_OWNER == "molstar"

REPO_NAME == "molstar"

\* The category names of the model, in Python's string order.
CategoryNames == <<"Announcements", "General", "Q&A">>

CategoryRank(cat) == CHOOSE r \in 1..Len(CategoryNames) : CategoryNames[r] = cat

\* cat1 < cat2 on Python strings
StrLess(cat1, cat2) == CategoryRank(cat1) < CategoryRank(cat2)

\* [i for i in issues if i['state'] == 'OPEN']
open_issues(items) == SelectSeq(items, LAMBDA i : i.state = "OPEN")

\* Faulty variant: the state is compared in the wrong case.
closed_issues_LowerCase(items) == SelectSeq(items, LAMBDA i : i.state = "closed")

\* [i for i in issues if i['state'] == 'CLOSED']
closed_issues(items) == SelectSeq(items, LAMBDA i : i.state = "CLOSED")

\* [d for d in discussions if not d['closed']]
open_disc(items) == SelectSeq(items, LAMBDA d : ~d.closed)

\* [d for d in discussions if d['closed']]
closed_disc(items) == SelectSeq(items, LAMBDA d : d.closed)

IssueEntry(issue) ==
    "[" \o (IF issue.state = "OPEN" THEN "OPEN" ELSE "CLOSED") \o "] #"
    \o ToString(issue.number) \o ": " \o issue.title
    \o (IF JoinComma(issue.labels) # "" THEN " [" \o JoinComma(issue.labels) \o "]"
        ELSE "")

DiscussionEntry(disc) ==
    "[" \o (IF ~disc.closed THEN "OPEN" ELSE "CLOSED") \o "] #"
    \o ToString(disc.number) \o ": " \o disc.title

create_issue_index(items, now) ==
    <<"# Issue Index for " \o REPO_OWNER \o "/" \o REPO_NAME,
      "Generated: " \o now,
      "Total issues: " \o ToString(Len(items)), "",
      "Open: " \o ToString(Len(open_issues(items))),
      "Closed: " \o ToString(Len(closed_issues(items))), "",
      "## All Issues", "">>
    \o [i \in 1..Len(items) |-> IssueEntry(items[i])]

\* The dict `categories`, as the list of its (key, value) pairs in insertion order.
RECURSIVE Categorize(_, _)
Categorize(items, categories) ==
    IF items = <<>> THEN categories
    ELSE LET disc == Head(items)
             cat  == disc.category
             with == IF \E k \in 1..Len(categories) : categories[k][1] = cat
                     THEN categories
                     ELSE Append(categories, <<cat, <<>>>>)
         IN  Categorize(Tail(items),
                        [k \in 1..Len(with) |->
                            IF with[k][1] = cat
                            THEN <<cat, Append(with[k][2], disc)>>
                            ELSE with[k]])

\* sorted(categories.items()): the keys differ, so the pairs are ordered by key.
RECURSIVE sorted(_)
sorted(pairs) ==
    IF pairs = <<>> THEN <<>>
    ELSE LET least == CHOOSE k \in 1..Len(pairs) :
                          \A l \in 1..Len(pairs) : l # k => StrLess(pairs[k][1], pairs[l][1])
         IN  <<pairs[least]>> \o
             sorted([k \in 1..(Len(pairs) - 1) |->
                        IF k < least THEN pairs[k] ELSE pairs[k + 1]])

CategorySection(pair) ==
    <<"## " \o pair[1] \o " (" \o ToString(Len(pair[2])) \o ")", "">>
    \o [i \in 1..Len(pair[2]) |-> DiscussionEntry(pair[2][i])]
    \o <<"">>

create_discussion_index(items, now) ==
    <<"# Discussion Index for " \o REPO_OWNER \o "/" \o REPO_NAME,
      "Generated: " \o now,
      "Total discussions: " \o ToString(Len(items)), "",
      "Open: " \o ToString(Len(open_disc(items))),
      "Closed: " \o ToString(Len(closed_disc(items))), "">>
    \o LET pairs == sorted(Categorize(items, <<>>))
       IN  Flatten([k \in 1..Len(pairs) |-> CategorySection(pairs[k])])

(***************************************************************************)
(* The collections the index functions are applied to: at most             *)
(* MaxIndexItems items, numbered in the order fetched or against it, each  *)
(* open or closed, labelled or not, of any category.                       *)
(***************************************************************************)
IndexItem(type, number, closed, labelled, cat) ==
    [number   |-> number,
     title    |-> "Title " \o ToString(number),
     state    |-> IF closed THEN "CLOSED" ELSE "OPEN",
     closed   |-> closed,
     labels   |-> IF labelled THEN <<"bug", "ui">> ELSE <<>>,
     category |-> cat]

IndexCollections(type) ==
    LET attrs == IF type = "issues"
                 THEN BOOLEAN \X BOOLEAN \X {""}
                 ELSE BOOLEAN \X {FALSE} \X Range(CategoryNames)
    IN  {[type  |-> type,
          items |-> [i \in 1..Len(as) |->
                        IndexItem(type, IF rev THEN Len(as) + 1 - i ELSE i,
                                  as[i][1], as[i][2], as[i][3])]] :
            as \in SeqsUpTo(attrs, MaxIndexItems), rev \in BOOLEAN}

InitIndex ==
    /\ RunIdle
    /\ fn = ""
    /\ arg \in IndexCollections("issues") \cup IndexCollections("discussions")
    /\ ret = <<>>

create_issue_index_call ==
    /\ fn = ""
    /\ arg.type = "issues"
    /\ fn' = "create_issue_index"
    /\ ret' = create_issue_index(arg.items, "2026-01-01T00:00:00")
    /\ arg' = arg
    /\ RunUnchanged

create_discussion_index_call ==
    /\ fn = ""
    /\ arg.type = "discussions"
    /\ fn' = "create_discussion_index"
    /\ ret' = create_discussion_index(arg.items, "2026-01-01T00:00:00")
    /\ arg' = arg
    /\ RunUnchanged

NextIndex == create_issue_index_call \/ create_discussion_index_call

SpecIndex == InitIndex /\ [][NextIndex]_vars

(***************************************************************************)
(* C6: in an index document the total is the open count plus the closed    *)
(* count and every item of the collection has exactly one entry line; in   *)
(* a discussion index the entry stands in the section of the item's own    *)
(* category, the section counts are the sizes of the sections and add up   *)
(* to the total, and the sections come in sorted order of category name.   *)
(***************************************************************************)
\* The number k with line = prefix k suffix, or -1.
Count(line, prefix, suffix) ==
    IF \E k \in 0..(MaxIndexItems + 1) : line = prefix \o ToString(k) \o suffix
    THEN CHOOSE k \in 0..(MaxIndexItems + 1) : line = prefix \o ToString(k) \o suffix
    ELSE -1

\* The category and count a section header line states, or <<"", -1>>.
Section(line) ==
    IF \E c \in Range(CategoryNames) : Count(line, "## " \o c \o " (", ")") >= 0
    THEN LET c == CHOOSE c \in Range(CategoryNames) :
                      Count(line, "## " \o c \o " (", ")") >= 0
         IN  <<c, Count(line, "## " \o c \o " (", ")")>>
    ELSE <<"", -1>>

C6_IndexCounts ==
    /\ fn = "create_issue_index" =>
           /\ Count(ret[3], "Total issues: ", "") = Len(arg.items)
           /\ Count(ret[3], "Total issues: ", "")
                  = Count(ret[5], "Open: ", "") + Count(ret[6], "Closed: ", "")
           /\ Len(ret) = 9 + Len(arg.items)
           /\ \A i \in 1..Len(arg.items) :
                  Cardinality(Positions(ret, {IssueEntry(arg.items[i])})) = 1
    /\ fn = "create_discussion_index" =>
           LET heads == {i \in 1..Len(ret) : Section(ret[i])[2] >= 0}
               entries == {i \in 1..Len(ret) :
                              \E d \in Range(arg.items) : ret[i] = DiscussionEntry(d)}
               \* the section header above line i
               HeadOf(i) == CHOOSE h \in heads :
                                h < i /\ \A g \in heads : g < i => g <= h
           IN  /\ Count(ret[3], "Total discussions: ", "") = Len(arg.items)
               /\ Count(ret[3], "Total discussions: ", "")
                      = Count(ret[5], "Open: ", "") + Count(ret[6], "Closed: ", "")
               /\ Cardinality(entries) = Len(arg.items)
               /\ \A k \in 1..Len(arg.items) :
                      LET at == Positions(ret, {DiscussionEntry(arg.items[k])})
                      IN  /\ Cardinality(at) = 1
                          /\ \A i \in at :
                                 Section(ret[HeadOf(i)])[1] = arg.items[k].category
               /\ \A h \in heads :
                      Section(ret[h])[2] =
                          Cardinality({i \in entries : HeadOf(i) = h})
               /\ \A g, h \in heads :
                      g < h => StrLess(Section(ret[g])[1], Section(ret[h])[1])
               /\ \A c \in {arg.items[k].category : k \in 1..Len(arg.items)} :
                      \E h \in heads : Section(ret[h])[1] = c

C6_Witness ==
    /\ fn = "create_discussion_index"
    /\ Len(arg.items) = 3
    /\ arg.items[1].category = "Q&A"
    /\ arg.items[2].category = "General"
    /\ arg.items[3].category = "Q&A"
    /\ arg.items[1].closed /\ ~arg.items[2].closed
    /\ ret[8] = "## General (1)"
    /\ ret[12] = "## Q&A (2)"

(***************************************************************************)
(* The file name save_items derives from an item.  A string is the list of *)
(* its characters.                                                         *)
(***************************************************************************)
MaxAffix == 2

TitleLimit == 50

NumberWidth == 4

\* The characters of the model: a letter, two of the other allowed characters,
\* a disallowed printable character and a disallowed blank.
Alphabet == {"a", " ", "-", "!", "\t"}

\* c.isalnum()
isalnum(c) == c \in {"a"}

\* What str.strip() removes.
Whitespace == {" ", "\t", "\n"}

\* c if c.isalnum() or c in " -_" else "_"
SafeChar(c) == IF isalnum(c) \/ c \in {" ", "-", "_"} THEN c ELSE "_"

RECURSIVE lstrip(_)
lstrip(str) ==
    IF str # <<>> /\ Head(str) \in Whitespace THEN lstrip(Tail(str)) ELSE str

\* str.strip()
strip(str) == Reverse(lstrip(Reverse(lstrip(str))))

\* Faulty variant: the title is stripped before it is truncated.
safe_title_StripsFirst(title) ==
    Take(strip([i \in 1..Len(title) |-> SafeChar(title[i])]), TitleLimit)

\* "".join(... for c in title), then safe_title[:50].strip()
safe_title(title) ==
    strip(Take([i \in 1..Len(title) |-> SafeChar(title[i])], TitleLimit))

\* The decimal digits of a natural number.
RECURSIVE Decimal(_)
Decimal(n) ==
    IF n < 10 THEN <<ToString(n)>> ELSE Append(Decimal(n \div 10), ToString(n % 10))

\* f"{num:04d}": zero-padded to at least four digits.
ZeroPadded(num) ==
    [i \in 1..(NumberWidth - Len(Decimal(num))) |-> "0"] \o Decimal(num)

\* f"{prefix}_{num:04d}_{safe_title}.txt"
filename(prefix, num, title) ==
    prefix \o <<"_">> \o ZeroPadded(num) \o <<"_">> \o safe_title(title)
    \o <<".", "t", "x", "t">>

\* The prefixes main passes to save_items.
Prefixes == {<<"i", "s", "s", "u", "e">>, <<"d", "i", "s", "c">>}

\* The titles: any characters, at most MaxAffix of them, then a run of
\* letters reaching to the limit or not at all, then any characters again.
Titles ==
    {head \o [i \in 1..pad |-> "a"] \o tail :
        head \in SeqsUpTo(Alphabet, MaxAffix),
        pad \in {0, TitleLimit - 2, TitleLimit - 1},
        tail \in SeqsUpTo(Alphabet, MaxAffix)}

\* Item numbers of two, four and five digits.
ItemNumbers == {42, 10 ^ NumberWidth - 1, 10 ^ NumberWidth}

InitFilename ==
    /\ RunIdle
    /\ fn = ""
    /\ arg \in [prefix : Prefixes, number : ItemNumbers, title : Titles]
    /\ ret = <<>>

save_items_filename ==
    /\ fn = ""
    /\ fn' = "save_items"
    /\ ret' = [safe_title |-> safe_title(arg.title),
               filename   |-> filename(arg.prefix, arg.number, arg.title)]
    /\ arg' = arg
    /\ RunUnchanged

NextFilename == save_items_filename

SpecFilename == InitFilename /\ [][NextFilename]_vars

(***************************************************************************)
(* C7, as stated: sanitizing a sanitized title changes nothing, and the    *)
(* file name is never longer than prefix + 1 + 4 + 1 + 50 + 4 characters.  *)
(***************************************************************************)
C7_IdempotentAndBoundedByFourDigits ==
    fn = "save_items" =>
        /\ safe_title(ret.safe_title) = ret.safe_title
        /\ Len(ret.filename)
               <= Len(arg.prefix) + 1 + NumberWidth + 1 + TitleLimit + 4

(***************************************************************************)
(* C7, amended: sanitizing a sanitized title changes nothing, the          *)
(* sanitized title has at most 50 characters, and the file name is never   *)
(* longer than prefix + 1 + d + 1 + 50 + 4 characters, d being 4 or the    *)
(* number of digits of the item number, whichever is larger; so the stated *)
(* bound holds for the item numbers below 10000.                           *)
(***************************************************************************)
RECURSIVE DigitCount(_)
DigitCount(n) == IF n < 10 THEN 1 ELSE 1 + DigitCount(n \div 10)

C7_IdempotentAndBoundedByDigits ==
    fn = "save_items" =>
        /\ safe_title(ret.safe_title) = ret.safe_title
        /\ Len(ret.safe_title) <= TitleLimit
        /\ Len(ret.filename)
               <= Len(arg.prefix) + 1 + Max(NumberWidth, DigitCount(arg.number))
                  + 1 + TitleLimit + 4
        /\ (arg.number < 10 ^ NumberWidth =>
                Len(ret.filename)
                    <= Len(arg.prefix) + 1 + NumberWidth + 1 + TitleLimit + 4)

C7_Witness ==
    /\ fn = "save_items"
    /\ arg.number = 10 ^ NumberWidth
    /\ Len(arg.title) > TitleLimit
    /\ arg.title[TitleLimit] = " "
    /\ Len(ret.safe_title) = TitleLimit - 1
    /\ Len(ret.filename) = Len(arg.prefix) + 1 + 5 + 1 + (TitleLimit - 1) + 4

====
